---- MODULE Spec2Model ----
(***************************************************************************)
(* Model of yesnoai/python-tools:                                          *)
(*   remove_comments.py  CommentRemover and DirectoryCommentCleaner        *)
(*   pss_resource.py     parse_section_sizes                               *)
(* A text is a sequence of one-character strings; positions are 1-based    *)
(* and 0 stands for Python's -1 (not found).                               *)
(***************************************************************************)
EXTENDS Integers, Sequences, FiniteSets, TLC

VARIABLES
    code,                  \* remove_comments: the argument
    pc,                    \* remove_comments: "start", "loop", "done"
    lines,                 \* remove_comments: code.split('\n')
    idx,                   \* remove_comments: number of lines already consumed
    result_lines,          \* remove_comments: result_lines
    in_multiline_comment,  \* remove_comments: in_multiline_comment
    multiline_buffer,      \* remove_comments: multiline_buffer
    ret,                   \* remove_comments: the returned text
    report,                \* parse_section_sizes: the lines of the file
    line_no,               \* parse_section_sizes: number of lines already read
    targets,               \* parse_section_sizes: targets
    spc,                   \* parse_section_sizes: "loop", "returned", "failed"
    fs,                    \* the content of each C/C++ file
    backups,               \* the content of each file's .backup file
    backup,                \* DirectoryCommentCleaner: self.backup
    stats,                 \* DirectoryCommentCleaner: self.stats
    cpp_files,             \* process_directory: cpp_files
    file_no,               \* process_directory: number of files already handled
    dpc,                   \* process_directory: "new", "loop", "returned"
    returned_ok,           \* what the last process_file call returned
    last_error,            \* the except clause the last process_file call ran
    calls                  \* number of process_directory calls made

stripVars == <<code, pc, lines, idx, result_lines, in_multiline_comment,
               multiline_buffer, ret>>

sizeVars == <<report, line_no, targets, spc>>

dirVars == <<fs, backups, backup, stats, cpp_files, file_no, dpc, returned_ok,
             last_error, calls>>

vars == <<stripVars, sizeVars, dirVars>>

\* what each program leaves alone: the state of the others
otherThanStrip == <<sizeVars, dirVars>>
otherThanSizes == <<stripVars, dirVars>>
otherThanDir == <<stripVars, sizeVars>>

(***************************************************************************)
(* Characters                                                              *)
(***************************************************************************)
DQ == "\""
SQ == "'"
BS == "\\"
NL == "\n"
SP == " "

\* str.strip / str.rstrip with no argument strip whitespace
IsSpace(c) == c \in {" ", "\t", "\n", "\r"}

(***************************************************************************)
(* Python str methods                                                      *)
(***************************************************************************)
Min(S) == CHOOSE x \in S : \A y \in S : x <= y

\* s[i:i+len(p)] == p
StartsWithAt(s, p, i) ==
    /\ i >= 1
    /\ i + Len(p) - 1 <= Len(s)
    /\ \A k \in 1..Len(p) : s[i + k - 1] = p[k]

\* str.find(p, from): the first position >= from where p occurs, 0 when none
Find(s, p, from) ==
    LET hits == {i \in from..(Len(s) - Len(p) + 1) : StartsWithAt(s, p, i)}
    IN  IF hits = {} THEN 0 ELSE Min(hits)

\* s[:i-1] and s[i:] in 1-based positions
Before(s, i) == SubSeq(s, 1, i - 1)
From(s, i) == SubSeq(s, i, Len(s))

\* str.replace(old, new, 1)
ReplaceFirst(s, old, new) ==
    LET i == Find(s, old, 1)
    IN  IF i = 0 THEN s ELSE Before(s, i) \o new \o From(s, i + Len(old))

\* str.replace(old, new): every non-overlapping occurrence, left to right
RECURSIVE ReplaceAll(_, _, _)
ReplaceAll(s, old, new) ==
    LET i == Find(s, old, 1)
    IN  IF i = 0 THEN s
        ELSE Before(s, i) \o new \o ReplaceAll(From(s, i + Len(old)), old, new)

\* str.split('\n')
RECURSIVE Split(_)
Split(s) ==
    LET i == Find(s, <<NL>>, 1)
    IN  IF i = 0 THEN <<s>> ELSE <<Before(s, i)>> \o Split(From(s, i + 1))

\* '\n'.join(ls)
RECURSIVE Join(_)
Join(ls) ==
    IF ls = <<>> THEN <<>>
    ELSE IF Len(ls) = 1 THEN ls[1]
    ELSE ls[1] \o <<NL>> \o Join(Tail(ls))

\* str.rstrip()
RECURSIVE RStrip(_)
RStrip(s) ==
    IF s # <<>> /\ IsSpace(s[Len(s)]) THEN RStrip(Before(s, Len(s))) ELSE s

\* not s.strip()
IsBlank(s) == \A k \in 1..Len(s) : IsSpace(s[k])

\* str(n) for n >= 0
Digit(d) == <<"0", "1", "2", "3", "4", "5", "6", "7", "8", "9">>[d + 1]

RECURSIVE Str(_)
Str(n) == IF n < 10 THEN <<Digit(n)>> ELSE Str(n \div 10) \o <<Digit(n % 10)>>

(***************************************************************************)
(* CommentRemover                                                          *)
(***************************************************************************)
\* One match of  q(?:\\.|[^q\\])*q  at position i (s[i] = q): the position of
\* the closing quote, 0 when the pattern does not match at i.  An escape pair
\* \x is taken whole ('.' excludes only a line break), any other character
\* but q is taken alone, and the first q not in an escape pair closes.
RECURSIVE LiteralEnd(_, _, _)
LiteralEnd(s, j, q) ==
    IF j > Len(s) THEN 0
    ELSE IF s[j] = BS
         THEN IF j + 1 <= Len(s) /\ s[j + 1] # NL
              THEN LiteralEnd(s, j + 2, q) ELSE 0
    ELSE IF s[j] = q THEN j
    ELSE LiteralEnd(s, j + 1, q)

\* re.finditer(pattern, s): the matched texts, scanning from position i
RECURSIVE FindIter(_, _, _)
FindIter(s, i, q) ==
    IF i > Len(s) THEN <<>>
    ELSE IF s[i] = q /\ LiteralEnd(s, i + 1, q) # 0
         THEN LET e == LiteralEnd(s, i + 1, q)
              IN  <<SubSeq(s, i, e)>> \o FindIter(s, e + 1, q)
    ELSE FindIter(s, i + 1, q)

string_pattern(s) == FindIter(s, 1, DQ)
char_pattern(s) == FindIter(s, 1, SQ)

\* f'__STRING_{n}__' and f'__CHAR_{n}__'
StringPlaceholder(n) ==
    <<"_", "_", "S", "T", "R", "I", "N", "G", "_">> \o Str(n) \o <<"_", "_">>
CharPlaceholder(n) ==
    <<"_", "_", "C", "H", "A", "R", "_">> \o Str(n) \o <<"_", "_">>

\* One pass of _protect_strings: each match, in order, is replaced at its first
\* occurrence in the current line by its placeholder and recorded in the map.
\* st = [line |-> protected_line, map |-> string_map as a sequence of
\* <<placeholder, original>> in insertion order]
RECURSIVE ProtectPass(_, _, _, _)
ProtectPass(st, matches, k, isString) ==
    IF k > Len(matches) THEN st
    ELSE LET placeholder == IF isString THEN StringPlaceholder(k - 1)
                                        ELSE CharPlaceholder(k - 1)
             next == [line |-> ReplaceFirst(st.line, matches[k], placeholder),
                      map  |-> Append(st.map, <<placeholder, matches[k]>>)]
         IN  ProtectPass(next, matches, k + 1, isString)

protect_strings(line) ==
    LET afterStrings == ProtectPass([line |-> line, map |-> <<>>],
                                    string_pattern(line), 1, TRUE)
    IN  ProtectPass(afterStrings, char_pattern(afterStrings.line), 1, FALSE)

\* _restore_strings: every placeholder of the map, in insertion order, is
\* replaced wherever it occurs
RECURSIVE restore_strings(_, _)
restore_strings(line, string_map) ==
    IF string_map = <<>> THEN line
    ELSE restore_strings(ReplaceAll(line, string_map[1][1], string_map[1][2]),
                         Tail(string_map))

\* re.sub(r'//.*?$', '', s) on a text without line breaks
single_line_comment_pattern(s) ==
    LET i == Find(s, <<"/", "/">>, 1)
    IN  IF i = 0 THEN s ELSE Before(s, i)

\* The block-comment part of _process_line
\* [line |-> protected_line, in_comment |-> in_comment]
StripBlockComment(s) ==
    LET multiline_start == Find(s, <<"/", "*">>, 1)
        multiline_end == Find(s, <<"*", "/">>, multiline_start + 2)
    IN  IF multiline_start = 0 THEN [line |-> s, in_comment |-> FALSE]
        ELSE IF multiline_end # 0
             THEN [line |-> Before(s, multiline_start) \o From(s, multiline_end + 2),
                   in_comment |-> FALSE]
        ELSE [line |-> Before(s, multiline_start), in_comment |-> TRUE]

\* Python's None, as a value no text equals (a text holds single characters)
None == <<"None">>

\* a variant that lacks the check of line 102 and keeps a blank result
NoBlankLine_KeepsBlank(processed_line) == processed_line

\* if not processed_line.strip(): return None
NoBlankLine(processed_line) ==
    IF IsBlank(processed_line) THEN None ELSE processed_line

\* _process_line(line, False): [line |-> processed_line or None, in_comment |-> flag]
process_line(line) ==
    LET prot == protect_strings(line)
        blk == StripBlockComment(single_line_comment_pattern(prot.line))
        processed_line == RStrip(restore_strings(blk.line, prot.map))
    IN  [line |-> NoBlankLine(processed_line), in_comment |-> blk.in_comment]

\* The body of the loop of remove_comments for one line
\* st = [result_lines, in_multiline_comment, multiline_buffer]
LoopBody(st, line) ==
    IF ~st.in_multiline_comment
    THEN LET r == process_line(line)
         IN  [st EXCEPT !.in_multiline_comment = r.in_comment,
                        !.result_lines = IF r.line # None THEN Append(@, r.line) ELSE @]
    ELSE LET end_index == Find(line, <<"*", "/">>, 1)
             remaining_part == From(line, end_index + 2)
             r == process_line(remaining_part)
         IN  IF end_index = 0 THEN st
             ELSE IF IsBlank(remaining_part) \/ r.line = None
                  THEN [st EXCEPT !.in_multiline_comment = FALSE]
             ELSE IF st.multiline_buffer # <<>>
                  THEN [st EXCEPT !.in_multiline_comment = FALSE,
                                  !.result_lines = Append(@, st.multiline_buffer[1] \o r.line),
                                  !.multiline_buffer = <<>>]
             ELSE [st EXCEPT !.in_multiline_comment = FALSE,
                             !.result_lines = Append(@, r.line)]

\* remove_comments as a function of its argument
RECURSIVE RunLoop(_, _)
RunLoop(st, ls) ==
    IF ls = <<>> THEN st ELSE RunLoop(LoopBody(st, Head(ls)), Tail(ls))

remove_comments(text) ==
    IF IsBlank(text) THEN text
    ELSE Join(RunLoop([result_lines |-> <<>>, in_multiline_comment |-> FALSE,
                       multiline_buffer |-> <<>>], Split(text)).result_lines)

LoopState == [result_lines |-> result_lines,
              in_multiline_comment |-> in_multiline_comment,
              multiline_buffer |-> multiline_buffer]

(***************************************************************************)
(* parse_section_sizes                                                     *)
(***************************************************************************)
TargetNames == {
    <<".", "r", "a", "m", "V", "e", "c", "t", "o", "r", "s">>,
    <<".", "a", "p", "p", "T", "e", "x", "t", "R", "a", "m">>,
    <<".", "d", "a", "t", "a">>,
    <<".", "n", "o", "i", "n", "i", "t">>,
    <<".", "b", "s", "s">>,
    <<".", "b", "o", "o", "t", "s", "t", "r", "a", "p", "T", "e", "x", "t">>,
    <<".", "b", "o", "o", "t", "s", "t", "r", "a", "p", "z", "e", "[", ".", ".", ".", "]">>,
    <<".", "b", "o", "o", "t", "s", "t", "r", "a", "p", "D", "a", "t", "a">>,
    <<".", "b", "o", "o", "t", "s", "t", "r", "a", "p", "B", "s", "s">>}

\* the value None of a targets entry
NoSize == [none |-> TRUE]

\* \d, [0-9a-fA-F], \s and \S
DecDigits == {"0", "1", "2", "3", "4", "5", "6", "7", "8", "9"}
HexDigits == DecDigits \cup {"a", "b", "c", "d", "e", "f", "A", "B", "C", "D", "E", "F"}
InClass(c, cls) ==
    CASE cls = "d" -> c \in DecDigits
      [] cls = "h" -> c \in HexDigits
      [] cls = "s" -> IsSpace(c)
      [] cls = "S" -> ~IsSpace(c)

\* the end of the longest run of the class from position j: the first position
\* >= j whose character is not of the class (Len(s) + 1 when there is none)
RECURSIVE RunEnd(_, _, _)
RunEnd(s, j, cls) ==
    IF j <= Len(s) /\ InClass(s[j], cls) THEN RunEnd(s, j + 1, cls) ELSE j

\* The pattern at position i:
\*   \[\s*\d+\]\s+(\S+)\s+\S+\s+[0-9a-fA-F]+\s+[0-9a-fA-F]+\s+([0-9a-fA-F]+)
\* Every run but the last is followed by a character outside its class, so
\* each is the longest run; the last group is greedy.  <<group 1, group 2>>,
\* or None when the pattern does not match at i.
PatternAt(s, i) ==
    LET idx0 == RunEnd(s, i + 1, "s")
        idx1 == RunEnd(s, idx0, "d")
        name0 == RunEnd(s, idx1 + 1, "s")
        name1 == RunEnd(s, name0, "S")
        type0 == RunEnd(s, name1, "s")
        type1 == RunEnd(s, type0, "S")
        addr0 == RunEnd(s, type1, "s")
        addr1 == RunEnd(s, addr0, "h")
        off0 == RunEnd(s, addr1, "s")
        off1 == RunEnd(s, off0, "h")
        size0 == RunEnd(s, off1, "s")
        size1 == RunEnd(s, size0, "h")
    IN  IF /\ s[i] = "["
           /\ idx1 > idx0 /\ idx1 <= Len(s) /\ s[idx1] = "]"
           /\ name0 > idx1 + 1 /\ name1 > name0
           /\ type0 > name1 /\ type1 > type0
           /\ addr0 > type1 /\ addr1 > addr0
           /\ off0 > addr1 /\ off1 > off0
           /\ size0 > off1 /\ size1 > size0
        THEN <<SubSeq(s, name0, name1 - 1), SubSeq(s, size0, size1 - 1)>>
        ELSE None

\* pattern.search(line): the match at the leftmost position that has one
pattern_search(line) ==
    LET starts == {i \in 1..Len(line) : PatternAt(line, i) # None}
    IN  IF starts = {} THEN None ELSE PatternAt(line, Min(starts))

\* int(c, 16) of one digit
HexDigitValue(c) ==
    CASE c \in DecDigits -> CHOOSE d \in 0..9 : Digit(d) = c
      [] c \in {"a", "A"} -> 10
      [] c \in {"b", "B"} -> 11
      [] c \in {"c", "C"} -> 12
      [] c \in {"d", "D"} -> 13
      [] c \in {"e", "E"} -> 14
      [] c \in {"f", "F"} -> 15

\* int(size_hex, 16)
RECURSIVE IntBase16(_)
IntBase16(h) ==
    IF h = <<>> THEN 0
    ELSE IntBase16(Before(h, Len(h))) * 16 + HexDigitValue(h[Len(h)])

\* a variant in which an earlier match for the name is kept
RecordSize_FirstWins(t, section_name, size_hex) ==
    IF t[section_name] # NoSize THEN t
    ELSE [t EXCEPT ![section_name] = [hex |-> size_hex, int |-> IntBase16(size_hex)]]

\* targets[section_name] = {"hex": size_hex, "int": size_int}
RecordSize(t, section_name, size_hex) ==
    [t EXCEPT ![section_name] = [hex |-> size_hex, int |-> IntBase16(size_hex)]]

\* if match: ... if section_name in targets
IsTargetLine(line) ==
    /\ pattern_search(line) # None
    /\ pattern_search(line)[1] \in TargetNames

\* the body of the loop over the lines of the file
ScanLine(t, line) ==
    LET match == pattern_search(line)
    IN  IF IsTargetLine(line) THEN RecordSize(t, match[1], match[2]) ELSE t

(***************************************************************************)
(* DirectoryCommentCleaner                                                 *)
(***************************************************************************)
\* the content of a file whose bytes are not valid UTF-8, and of no file
Undecodable == <<"not utf-8">>
NoFile == <<"no file">>

\* backup_file(file_path): the possible contents of the .backup file after
\* the call.  Opening either file may fail (nothing written), the write may
\* fail after the backup was created (an empty file is left), or the content
\* is copied; every exception is caught inside backup_file.
backup_file(files, bks, file_path) ==
    {bks,
     [bks EXCEPT ![file_path] = <<>>],
     [bks EXCEPT ![file_path] = files[file_path]]}

\* a variant of process_file that makes the backup before it reads the
\* file: backup_file has created the .backup file when its own read fails
process_file_BackupBeforeRead(files, bks, with_backup, file_path) ==
    LET Outcome(f, b, ok, error) == [fs |-> f, backups |-> b, ok |-> ok, error |-> error]
        afterBackup ==
            IF ~with_backup THEN {bks}
            ELSE IF files[file_path] = Undecodable
                 THEN {bks, [bks EXCEPT ![file_path] = <<>>]}
            ELSE backup_file(files, bks, file_path)
        cleaned_content == remove_comments(files[file_path])
    IN  {Outcome(files, b, FALSE, "other") : b \in afterBackup}
        \cup
        IF files[file_path] = Undecodable
        THEN {Outcome(files, b, FALSE, "decode") : b \in afterBackup}
        ELSE {Outcome([files EXCEPT ![file_path] = cleaned_content], b, TRUE, "none") :
                 b \in afterBackup}
             \cup
             {Outcome(f, b, FALSE, "other") :
                 f \in {files, [files EXCEPT ![file_path] = <<>>]}, b \in afterBackup}

\* process_file(file_path): the possible outcomes of one call,
\* [fs, backups, ok (the value returned), error (the except clause run)]
process_file(files, bks, with_backup, file_path) ==
    LET Outcome(f, b, ok, error) == [fs |-> f, backups |-> b, ok |-> ok, error |-> error]
        afterBackup == IF with_backup THEN backup_file(files, bks, file_path) ELSE {bks}
        cleaned_content == remove_comments(files[file_path])
    IN  \* open(file_path, 'r') or f.read() raises OSError
        {Outcome(files, bks, FALSE, "other")}
        \cup
        IF files[file_path] = Undecodable
        THEN \* f.read() raises UnicodeDecodeError
             {Outcome(files, bks, FALSE, "decode")}
        ELSE \* the file is read and, with self.backup, backed up
             {Outcome([files EXCEPT ![file_path] = cleaned_content], b, TRUE, "none") :
                 b \in afterBackup}
             \cup
             \* open(file_path, 'w') raises, or f.write raises after the
             \* file was truncated
             {Outcome(f, b, FALSE, "other") :
                 f \in {files, [files EXCEPT ![file_path] = <<>>]}, b \in afterBackup}

(***************************************************************************)
(* Inputs of remove_comments                                               *)
(***************************************************************************)
MaxCommentFrags == 5
MaxLiteralFrags == 4

\* the texts made of at most n fragments of F
RECURSIVE Texts(_, _)
Texts(F, n) ==
    IF n = 0 THEN {<<>>}
    ELSE LET T == Texts(F, n - 1) IN T \cup {t \o f : t \in T, f \in F}

\* comment structure over several lines
CommentFrags == {<<"/", "*">>, <<"*", "/">>, <<"a">>, <<SP>>, <<NL>>}
\* literals, escapes, comment openers and placeholder-shaped text on a line
LiteralFrags == {<<DQ>>, <<SQ>>, <<BS>>, <<"/", "/">>, <<"/", "*">>, <<"*", "/">>,
                 <<"a">>, <<SQ, DQ, SQ>>, StringPlaceholder(0)}

Inputs == Texts(CommentFrags, MaxCommentFrags) \cup Texts(LiteralFrags, MaxLiteralFrags)

(***************************************************************************)
(* Inputs of parse_section_sizes                                           *)
(***************************************************************************)
MaxReportLines == 2

\* the columns of a row, one space apart
RECURSIVE Cols(_)
Cols(cs) ==
    IF Len(cs) = 1 THEN cs[1] ELSE cs[1] \o <<SP>> \o Cols(Tail(cs))

\* name and size of the rows printed in full: two target names, one of them
\* with two sizes, and a name that is no target
Rows == {<<<<".", "d", "a", "t", "a">>, <<"1", "f">>>>,
         <<<<".", "d", "a", "t", "a">>, <<"A", "0">>>>,
         <<<<".", "b", "s", "s">>, <<"1", "f">>>>,
         <<<<".", "h", "e", "a", "p">>, <<"A", "0">>>>}
Index1 == <<"[", " ", "1", "]">>
Index10 == <<"[", "1", "0", "]">>
TypeCol == <<"P">>
AddrCol == <<"2", "a">>
OffCol == <<"6">>
EsCol == <<"0", "0">>

ReportLines ==
    \* rows as readelf prints them
    {Cols(<<Index1, r[1], TypeCol, AddrCol, OffCol, r[2], EsCol>>) \o <<NL>> : r \in Rows}
    \cup {
    \* the header row, the flag key and an empty line
    Cols(<<<<"[", "N", "r", "]">>, <<"N", "a", "m", "e">>, <<"T">>, <<"A">>, <<"O">>,
           <<"S">>>>) \o <<NL>>,
    Cols(<<<<"W">>, <<"(", "w", ")">>>>) \o <<NL>>,
    <<NL>>,
    \* the null row: no name column
    Cols(<<<<"[", " ", "0", "]">>, <<"N", "U", "L", "L">>, <<"0", "0">>, <<"0">>, <<"0">>,
           <<"0", "0">>>>) \o <<NL>>,
    \* an address that is not hexadecimal
    Cols(<<Index1, <<".", "d", "a", "t", "a">>, TypeCol, <<"2", "g">>, OffCol,
           <<"1", "f">>, EsCol>>) \o <<NL>>,
    \* a row with no type column
    Cols(<<Index1, <<".", "b", "s", "s">>, AddrCol, OffCol, <<"1", "f">>, EsCol>>) \o <<NL>>,
    \* a row cut after the offset
    Cols(<<Index10, <<".", "b", "s", "s">>, TypeCol, AddrCol, OffCol>>) \o <<NL>>,
    \* a size followed by other characters, and the last line without line break
    Cols(<<Index10, <<".", "d", "a", "t", "a">>, TypeCol, AddrCol, OffCol,
           <<"1", "f", "z">>>>),
    \* text before the row, and two indices
    Cols(<<<<"x", "[", "2", "]">>, Index10, <<".", "b", "s", "s">>, TypeCol, AddrCol, OffCol,
           <<"0", "0", "0", "1", "5", "8">>>>) \o <<NL>>}

RECURSIVE Reports(_)
Reports(n) ==
    IF n = 0 THEN {<<>>}
    ELSE LET R == Reports(n - 1) IN R \cup {Append(r, l) : r \in R, l \in ReportLines}

(***************************************************************************)
(* Inputs of process_directory                                             *)
(***************************************************************************)
MaxFiles == 2
MaxCalls == 2

Files == 1..MaxFiles
FileTexts == {<<"a">>, <<"a", "/", "/", "b">>}

\* what find_cpp_files may return: some of the files, each once, in the
\* order of the directory listing
FileLists ==
    {l \in UNION {[1..n -> Files] : n \in 0..MaxFiles} :
        \A i, j \in 1..Len(l) : i < j => l[i] < l[j]}

(***************************************************************************)
(* Each program is checked alone; the state of the others is held fixed    *)
(***************************************************************************)
IdleStrip ==
    /\ code = <<>>
    /\ pc = "done"
    /\ lines = <<>>
    /\ idx = 0
    /\ result_lines = <<>>
    /\ in_multiline_comment = FALSE
    /\ multiline_buffer = <<>>
    /\ ret = <<>>

IdleSizes ==
    /\ report = <<>>
    /\ line_no = 0
    /\ targets = [n \in TargetNames |-> NoSize]
    /\ spc = "returned"

IdleDir ==
    /\ fs = <<>>
    /\ backups = <<>>
    /\ backup = FALSE
    /\ stats = [files_processed |-> 0, files_skipped |-> 0, total_files |-> 0]
    /\ cpp_files = <<>>
    /\ file_no = 0
    /\ dpc = "returned"
    /\ returned_ok = FALSE
    /\ last_error = "none"
    /\ calls = 0

(***************************************************************************)
(* remove_comments as a state machine: one action per loop iteration       *)
(***************************************************************************)
InitStrip ==
    /\ code \in Inputs
    /\ pc = "start"
    /\ lines = <<>>
    /\ idx = 0
    /\ result_lines = <<>>
    /\ in_multiline_comment = FALSE
    /\ multiline_buffer = <<>>
    /\ ret = <<>>
    /\ IdleSizes
    /\ IdleDir

\* if not code.strip(): return code
ReturnBlank ==
    /\ pc = "start"
    /\ IsBlank(code)
    /\ pc' = "done"
    /\ ret' = code
    /\ UNCHANGED <<code, lines, idx, result_lines, in_multiline_comment, multiline_buffer>>
    /\ UNCHANGED otherThanStrip

\* lines = code.split('\n')
SplitLines ==
    /\ pc = "start"
    /\ ~IsBlank(code)
    /\ pc' = "loop"
    /\ lines' = Split(code)
    /\ UNCHANGED <<code, idx, result_lines, in_multiline_comment, multiline_buffer, ret>>
    /\ UNCHANGED otherThanStrip

\* one iteration outside a block comment
NormalLine ==
    /\ pc = "loop"
    /\ idx < Len(lines)
    /\ ~in_multiline_comment
    /\ LET st == LoopBody(LoopState, lines[idx + 1])
       IN  /\ result_lines' = st.result_lines
           /\ in_multiline_comment' = st.in_multiline_comment
           /\ multiline_buffer' = st.multiline_buffer
    /\ idx' = idx + 1
    /\ UNCHANGED <<code, pc, lines, ret>>
    /\ UNCHANGED otherThanStrip

\* one iteration inside a block comment
CommentLine ==
    /\ pc = "loop"
    /\ idx < Len(lines)
    /\ in_multiline_comment
    /\ LET st == LoopBody(LoopState, lines[idx + 1])
       IN  /\ result_lines' = st.result_lines
           /\ in_multiline_comment' = st.in_multiline_comment
           /\ multiline_buffer' = st.multiline_buffer
    /\ idx' = idx + 1
    /\ UNCHANGED <<code, pc, lines, ret>>
    /\ UNCHANGED otherThanStrip

\* return '\n'.join(result_lines)
ReturnJoined ==
    /\ pc = "loop"
    /\ idx = Len(lines)
    /\ pc' = "done"
    /\ ret' = Join(result_lines)
    /\ UNCHANGED <<code, lines, idx, result_lines, in_multiline_comment, multiline_buffer>>
    /\ UNCHANGED otherThanStrip

NextStrip == ReturnBlank \/ SplitLines \/ NormalLine \/ CommentLine \/ ReturnJoined

(***************************************************************************)
(* parse_section_sizes as a state machine: one action per line read        *)
(***************************************************************************)
InitSizes ==
    /\ report \in Reports(MaxReportLines)
    /\ line_no = 0
    /\ targets = [n \in TargetNames |-> NoSize]
    /\ spc = "loop"
    /\ IdleStrip
    /\ IdleDir

\* a line that matches the pattern with a target name
ReadTargetLine ==
    /\ spc = "loop"
    /\ line_no < Len(report)
    /\ IsTargetLine(report[line_no + 1])
    /\ targets' = ScanLine(targets, report[line_no + 1])
    /\ line_no' = line_no + 1
    /\ UNCHANGED <<report, spc>>
    /\ UNCHANGED otherThanSizes

\* any other line
ReadOtherLine ==
    /\ spc = "loop"
    /\ line_no < Len(report)
    /\ ~IsTargetLine(report[line_no + 1])
    /\ line_no' = line_no + 1
    /\ UNCHANGED <<report, targets, spc>>
    /\ UNCHANGED otherThanSizes

\* opening or reading the file raises: the function prints and returns None
ReadFails ==
    /\ spc = "loop"
    /\ spc' = "failed"
    /\ UNCHANGED <<report, line_no, targets>>
    /\ UNCHANGED otherThanSizes

\* return targets
ReturnTargets ==
    /\ spc = "loop"
    /\ line_no = Len(report)
    /\ spc' = "returned"
    /\ UNCHANGED <<report, line_no, targets>>
    /\ UNCHANGED otherThanSizes

NextSizes == ReadTargetLine \/ ReadOtherLine \/ ReadFails \/ ReturnTargets

SpecSizes == InitSizes /\ [][NextSizes]_vars

SpecStrip == InitStrip /\ [][NextStrip]_vars

(***************************************************************************)
(* process_directory as a state machine: one action per scan, per file     *)
(* handled and per return; a cleaner may be asked to process again         *)
(***************************************************************************)
InitDir ==
    /\ fs \in [Files -> FileTexts \cup {Undecodable}]
    /\ backups = [f \in Files |-> NoFile]
    /\ backup \in BOOLEAN
    /\ stats = [files_processed |-> 0, files_skipped |-> 0, total_files |-> 0]
    /\ cpp_files = <<>>
    /\ file_no = 0
    /\ dpc = "new"
    /\ returned_ok = FALSE
    /\ last_error = "none"
    /\ calls = 0
    /\ IdleStrip
    /\ IdleSizes

\* the scan finds no file: total_files is set and the call returns
ScanNoFiles ==
    /\ dpc \in {"new", "returned"}
    /\ calls < MaxCalls
    /\ calls' = calls + 1
    /\ cpp_files' = <<>>
    /\ file_no' = 0
    /\ stats' = [stats EXCEPT !.total_files = 0]
    /\ dpc' = "returned"
    /\ UNCHANGED <<fs, backups, backup, returned_ok, last_error>>
    /\ UNCHANGED otherThanDir

\* the scan finds files: total_files is set and the loop starts
ScanFiles ==
    /\ dpc \in {"new", "returned"}
    /\ calls < MaxCalls
    /\ calls' = calls + 1
    /\ \E found \in FileLists \ {<<>>} :
          /\ cpp_files' = found
          /\ stats' = [stats EXCEPT !.total_files = Len(found)]
    /\ file_no' = 0
    /\ dpc' = "loop"
    /\ UNCHANGED <<fs, backups, backup, returned_ok, last_error>>
    /\ UNCHANGED otherThanDir

\* one iteration of the loop: process_file and the count of its result
HandleFile ==
    /\ dpc = "loop"
    /\ file_no < Len(cpp_files)
    /\ \E o \in process_file(fs, backups, backup, cpp_files[file_no + 1]) :
          /\ fs' = o.fs
          /\ backups' = o.backups
          /\ returned_ok' = o.ok
          /\ last_error' = o.error
          /\ stats' = IF o.ok THEN [stats EXCEPT !.files_processed = @ + 1]
                              ELSE [stats EXCEPT !.files_skipped = @ + 1]
    /\ file_no' = file_no + 1
    /\ UNCHANGED <<backup, cpp_files, dpc, calls>>
    /\ UNCHANGED otherThanDir

\* return self.stats
ReturnStats ==
    /\ dpc = "loop"
    /\ file_no = Len(cpp_files)
    /\ dpc' = "returned"
    /\ UNCHANGED <<fs, backups, backup, stats, cpp_files, file_no, returned_ok,
                   last_error, calls>>
    /\ UNCHANGED otherThanDir

NextDir == ScanNoFiles \/ ScanFiles \/ HandleFile \/ ReturnStats

SpecDir == InitDir /\ [][NextDir]_vars

(***************************************************************************)
(* The C reading of a text, against which the claims are stated: a         *)
(* left-to-right scan into code characters, string and character literals, *)
(* line comments and block comments.  A quote with no closing quote on its *)
(* line opens no literal and counts as code.                               *)
(***************************************************************************)
RECURSIVE RefLiteralEnd(_, _, _)
RefLiteralEnd(s, j, q) ==
    IF j > Len(s) \/ s[j] = NL THEN 0
    ELSE IF s[j] = q THEN j
    ELSE IF s[j] = BS THEN RefLiteralEnd(s, j + 2, q)
    ELSE RefLiteralEnd(s, j + 1, q)

RECURSIVE RefTokens(_, _)
RefTokens(s, i) ==
    IF i > Len(s) THEN <<>>
    ELSE IF StartsWithAt(s, <<"/", "/">>, i)
         THEN LET nl == Find(s, <<NL>>, i)
                  e == IF nl = 0 THEN Len(s) ELSE nl - 1
              IN  <<[kind |-> "line", text |-> SubSeq(s, i, e)]>> \o RefTokens(s, e + 1)
    ELSE IF StartsWithAt(s, <<"/", "*">>, i)
         THEN LET c == Find(s, <<"*", "/">>, i + 2)
              IN  IF c = 0 THEN <<[kind |-> "open", text |-> From(s, i)]>>
                  ELSE <<[kind |-> "block", text |-> SubSeq(s, i, c + 1)]>>
                       \o RefTokens(s, c + 2)
    ELSE IF s[i] \in {DQ, SQ} /\ RefLiteralEnd(s, i + 1, s[i]) # 0
         THEN LET e == RefLiteralEnd(s, i + 1, s[i])
              IN  <<[kind |-> "literal", text |-> SubSeq(s, i, e)]>> \o RefTokens(s, e + 1)
    ELSE <<[kind |-> "code", text |-> <<s[i]>>]>> \o RefTokens(s, i + 1)

RefKinds(s) == {t.kind : t \in {RefTokens(s, 1)[k] : k \in 1..Len(RefTokens(s, 1))}}
RefLiterals(s) ==
    LET toks == RefTokens(s, 1)
    IN  {toks[k].text : k \in {n \in 1..Len(toks) : toks[n].kind = "literal"}}
RefHasComment(s) == RefKinds(s) \cap {"line", "block", "open"} # {}
\* the scan of one line ends inside a block comment
RefOpensBlock(s) == "open" \in RefKinds(s)

Occurs(s, p) == Find(s, p, 1) # 0

RECURSIVE Count(_, _)
Count(s, p) ==
    LET i == Find(s, p, 1)
    IN  IF i = 0 THEN 0 ELSE 1 + Count(From(s, i + Len(p)), p)

\* the lines of a text; the empty text has none
LinesOf(s) == IF s = <<>> THEN {} ELSE {Split(s)[k] : k \in 1..Len(Split(s))}

\* a text with each line's trailing whitespace trimmed and its blank lines dropped
RECURSIVE TrimmedLines(_)
TrimmedLines(ls) ==
    IF ls = <<>> THEN <<>>
    ELSE IF IsBlank(Head(ls)) THEN TrimmedLines(Tail(ls))
    ELSE <<RStrip(Head(ls))>> \o TrimmedLines(Tail(ls))
Normalized(s) == Join(TrimmedLines(Split(s)))

Done == pc = "done"
CurrentLine == lines[idx + 1]

(***************************************************************************)
(* Claims about remove_comments (SpecStrip)                                *)
(***************************************************************************)
\* C1: every string or character literal of the input that lies outside any
\* comment appears byte-identical in the returned text.
C1_LiteralsPreserved ==
    Done => \A lit \in RefLiterals(code) : Occurs(ret, lit)

\* C2: the returned text contains no comment span: no line comment and no
\* block comment outside its string and character literals.
C2_NoCommentInOutput ==
    Done => ~RefHasComment(ret)

\* C3 (as stated): no line of the returned text is empty or whitespace-only,
\* for every input text.
C3_NoBlankLineAnyInput ==
    Done => \A l \in LinesOf(ret) : ~IsBlank(l)

\* C3 (amended): for an input that is not empty or whitespace-only, the
\* returned text is empty or has no empty or whitespace-only line; an empty
\* or whitespace-only input is returned unchanged.
C3_NoBlankLine ==
    Done => IF IsBlank(code) THEN ret = code
            ELSE \A l \in LinesOf(ret) : ~IsBlank(l)

\* C3 witness: an input with text and a blank line has been stripped and a
\* line of it survived.
C3_Witness ==
    /\ Done
    /\ ~IsBlank(code)
    /\ \E k \in 1..Len(lines) : IsBlank(lines[k])
    /\ ret # <<>>

\* C4: a comment-free input (here already restricted to inputs that are not
\* whitespace-only, which the function returns untouched) comes back with
\* trailing whitespace trimmed and blank lines dropped, and no other change.
C4_CommentFreeUnchanged ==
    (Done /\ ~RefHasComment(code) /\ ~IsBlank(code)) => ret = Normalized(code)

\* C8: a line scanned outside a block comment leaves the carried flag set
\* exactly when it holds, outside literals and line comments, a block-comment
\* opener with no closer after it on that line.
C8_FlagIffUnterminatedBlock ==
    [][(pc = "loop" /\ idx < Len(lines) /\ ~in_multiline_comment)
          => (in_multiline_comment' = RefOpensBlock(CurrentLine))]_vars

\* C9: on a line that closes the block comment, the text after the first
\* closer is handled as a normal line is: its code is emitted and the flag
\* it yields is carried to the following lines.
C9_RemainderHandledAsNormalLine ==
    [][(pc = "loop" /\ idx < Len(lines) /\ in_multiline_comment
            /\ Occurs(CurrentLine, <<"*", "/">>))
          => LET remainder == From(CurrentLine, Find(CurrentLine, <<"*", "/">>, 1) + 2)
                 r == process_line(remainder)
             IN  /\ in_multiline_comment' = r.in_comment
                 /\ result_lines' = IF r.line = None THEN result_lines
                                     ELSE Append(result_lines, r.line)]_vars

\* C10: text of the input that has the form of a placeholder token comes
\* out unchanged: a comment-free input and the returned text hold the token
\* the same number of times.
C10_PlaceholderTextUnchanged ==
    (Done /\ ~RefHasComment(code))
        => Count(ret, StringPlaceholder(0)) = Count(code, StringPlaceholder(0))

(***************************************************************************)
(* The column pattern read as a regular expression, against which the      *)
(* claim about parse_section_sizes is stated: every way the items of the   *)
(* pattern can consume the line from a start position, the search taking   *)
(* the leftmost start and the greedy last group its longest run.           *)
(***************************************************************************)
RefItem(c, r, g) == [c |-> c, r |-> r, g |-> g]
RefPattern ==
    <<RefItem("[", "1", 0), RefItem("s", "*", 0), RefItem("d", "+", 0), RefItem("]", "1", 0),
      RefItem("s", "+", 0), RefItem("S", "+", 1),
      RefItem("s", "+", 0), RefItem("S", "+", 0),
      RefItem("s", "+", 0), RefItem("h", "+", 0),
      RefItem("s", "+", 0), RefItem("h", "+", 0),
      RefItem("s", "+", 0), RefItem("h", "+", 2)>>

RefWhitespace == {" ", "\t", "\n", "\r"}
RefHexOrder == <<"0", "1", "2", "3", "4", "5", "6", "7", "8", "9",
                 "a", "b", "c", "d", "e", "f">>
RefHexUpper == <<"0", "1", "2", "3", "4", "5", "6", "7", "8", "9",
                 "A", "B", "C", "D", "E", "F">>
RefCharIn(ch, c) ==
    CASE c = "s" -> ch \in RefWhitespace
      [] c = "S" -> ch \notin RefWhitespace
      [] c = "d" -> \E k \in 1..10 : RefHexOrder[k] = ch
      [] c = "h" -> \E k \in 1..16 : ch \in {RefHexOrder[k], RefHexUpper[k]}
      [] OTHER -> ch = c

RefCount(n, r) ==
    CASE r = "1" -> n = 1
      [] r = "+" -> n >= 1
      [] r = "*" -> n >= 0

\* the states [pos, g] after one more item: pos is the next position to read
\* and g[k] the <<first, last>> positions of group k
RefStep(s, item, states) ==
    UNION {{[pos |-> j,
             g |-> IF item.g = 0 THEN st.g ELSE [st.g EXCEPT ![item.g] = <<st.pos, j - 1>>]] :
               j \in {e \in st.pos..(Len(s) + 1) :
                         /\ RefCount(e - st.pos, item.r)
                         /\ \A k \in st.pos..(e - 1) : RefCharIn(s[k], item.c)}} :
           st \in states}

RECURSIVE RefRun(_, _, _)
RefRun(s, items, states) ==
    IF items = <<>> \/ states = {} THEN states
    ELSE RefRun(s, Tail(items), RefStep(s, Head(items), states))

RefMatchesAt(s, i) == RefRun(s, RefPattern, {[pos |-> i, g |-> <<<<0, 0>>, <<0, 0>>>>]})

\* <<name, size>> of the match the search returns, None when there is none
RefSearch(s) ==
    LET starts == {i \in 1..Len(s) : RefMatchesAt(s, i) # {}}
    IN  IF starts = {} THEN None
        ELSE LET M == RefMatchesAt(s, Min(starts))
                 m == CHOOSE x \in M : \A y \in M : y.pos <= x.pos
             IN  <<SubSeq(s, m.g[1][1], m.g[1][2]), SubSeq(s, m.g[2][1], m.g[2][2])>>

\* the base-16 value of a text of hexadecimal digits
RECURSIVE RefBase16(_)
RefBase16(h) ==
    IF h = <<>> THEN 0
    ELSE (CHOOSE v \in 0..15 : Head(h) \in {RefHexOrder[v + 1], RefHexUpper[v + 1]})
             * 16 ^ (Len(h) - 1)
         + RefBase16(Tail(h))

Max(S) == CHOOSE x \in S : \A y \in S : y <= x

\* found[k] is what the search gives for line k; the lines, by number, that
\* match the pattern with the name
RefLinesOf(found, name) ==
    {k \in 1..Len(found) : found[k] # None /\ found[k][1] = name}

\* what the claim gives a target name after the lines searched
RefEntry(found, name) ==
    IF RefLinesOf(found, name) = {} THEN NoSize
    ELSE LET h == found[Max(RefLinesOf(found, name))][2]
         IN  [hex |-> h, int |-> RefBase16(h)]

RefFound(rep) == [k \in 1..Len(rep) |-> RefSearch(rep[k])]

(***************************************************************************)
(* Claims about parse_section_sizes (SpecSizes)                            *)
(***************************************************************************)
\* C5: after any number of lines read, every target name maps to the hex
\* text and base-16 value of the size column of the last line read that
\* matches the column pattern with that name, and to None when there is no
\* such line; so lines that do not match, or name no target, change nothing.
C5_LastMatchWins ==
    \A found \in {RefFound(SubSeq(report, 1, line_no))} :
        \A name \in TargetNames : targets[name] = RefEntry(found, name)

\* C5 witness: the mapping is returned after two lines matched the same
\* target name with different sizes, and another target was never seen.
C5_Witness ==
    /\ spc = "returned"
    /\ Len(report) = 2
    /\ \E found \in {RefFound(report)} :
           \E name \in TargetNames :
              /\ RefLinesOf(found, name) = {1, 2}
              /\ found[1][2] # found[2][2]
              /\ targets[name].hex = found[2][2]
    /\ \E name \in TargetNames : targets[name] = NoSize

(***************************************************************************)
(* Claims about DirectoryCommentCleaner (SpecDir)                          *)
(***************************************************************************)
\* C6: at the return of every process_directory call each file of the call
\* has been counted once, as processed or as skipped:
\* files_processed + files_skipped = total_files.
C6_CountsAddUp ==
    dpc = "returned"
        => stats.files_processed + stats.files_skipped = stats.total_files

\* C7: when process_file fails with a decode error the file keeps its
\* content, no backup file is created or written, and the call returns False.
C7_DecodeErrorTouchesNothing ==
    [][(file_no' = file_no + 1 /\ last_error' = "decode")
          => (fs' = fs /\ backups' = backups /\ returned_ok' = FALSE)]_vars

\* C7 witness: a cleaner that makes backups has just skipped a file for a
\* decode error.
C7_Witness ==
    /\ dpc = "loop"
    /\ file_no >= 1
    /\ backup
    /\ last_error = "decode"
    /\ fs[cpp_files[file_no]] = Undecodable
    /\ stats.files_skipped >= 1

====
